---- MODULE Spec2Model ----
(***************************************************************************)
(* The AST interpreters of oif.cpp: the Context (argument stack, return    *)
(* signal, return value), the node kinds of the four namespaces (Simplest, *)
(* SimpleFusion, BetterFusion, SimplifyCalls) and the fib programs built   *)
(* from them.                                                               *)
(*                                                                         *)
(* Each eval method is an operator from the state of the evaluation to    *)
(* its next state: `frames' is the C++ call stack of eval() activations,   *)
(* and a method advances by one step per call it makes or returns from.    *)
(*   - Spec takes these steps one at a time, so that every intermediate    *)
(*     Context is a state;                                                 *)
(*   - SpecFib and SpecFusion take a whole evaluation as one step (Run),   *)
(*     as a driver that calls fib() and compares results sees it.          *)
(*                                                                         *)
(* uint32_t values are pairs <<high 16 bits, low 16 bits>>, so that the    *)
(* arithmetic wraps at 2^32 as in the program.                             *)
(***************************************************************************)
EXTENDS Integers, Sequences, FiniteSets, TLC

VARIABLES
    program,        \* which tree the driver built (which fib(), or a test tree)
    n,              \* the driver's argument (uint32_t n of fib)
    build,          \* the operand order the compiler chose for + - <
    garbage,        \* what the words of a new uint32_t[4096] hold
    stopForReturn,  \* Context::stopForReturn
    returnValue,    \* Context::returnValue
    stack,          \* Context::stack, and the heap words that follow it
    stackTop,       \* Context::stackTop
    frames,         \* the eval() activations in progress, innermost last
    ret,            \* the value the last finished eval() returned
    status,         \* "idle", "running", "done" (result = ret), "crashed",
                    \* or "undefined" (a run stopped before an undefined step)
    oob,            \* an access outside Context::stack has happened
    results,        \* SpecFib, SpecFusion: the results of the evaluations made
    operands        \* SpecFusion: the argument a and the constant c

vars == <<program, n, build, garbage, stopForReturn, returnValue, stack, stackTop,
          frames, ret, status, oob, results, operands>>

ctxVars == <<stopForReturn, returnValue, stack, stackTop>>

----------------------------------------------------------------------------
(* Bounds of the model *)

\* Context::stack has 4096 slots (oif.cpp:13); the model scales it down.
StackCapacity == 20
\* Heap words after Context::stack that an overflowing push can land in.
AdjacentSlots == 2
\* Largest argument of the fib programs evaluated step by step.
MaxArg == 6
\* Largest argument on which every build of every fib is run to its end.
MaxFibArg == 10

MemSlots == StackCapacity + AdjacentSlots

----------------------------------------------------------------------------
(* uint32_t *)

Base == 2^16

UInt32 == (0 .. Base - 1) \X (0 .. Base - 1)

\* The uint32_t with value k, for 0 <= k < 2^31.
U32(k) == <<k \div Base, k % Base>>

Zero == U32(0)
One == U32(1)

\* lhs + rhs on uint32_t
Add32(a, b) ==
    LET lo == a[2] + b[2]
    IN  <<(a[1] + b[1] + (lo \div Base)) % Base, lo % Base>>

\* lhs - rhs on uint32_t
Sub32(a, b) ==
    LET lo == a[2] - b[2]
        borrow == IF lo < 0 THEN 1 ELSE 0
    IN  <<(a[1] - b[1] - borrow) % Base, lo % Base>>

\* lhs < rhs on uint32_t, converted to uint32_t
Less32(a, b) ==
    IF a[1] < b[1] \/ (a[1] = b[1] /\ a[2] < b[2]) THEN One ELSE Zero

\* if (v)
Truthy(v) == v # Zero

----------------------------------------------------------------------------
(* Nodes: a tree is a record; a Function* or a shared Node* is a name       *)
(* looked up in the program's tables.                                       *)

ConstNode(value) == [kind |-> "ConstNode", value |-> value]
ArgNode == [kind |-> "ArgNode"]
AddNode(lhs, rhs) == [kind |-> "AddNode", lhs |-> lhs, rhs |-> rhs]
SubNode(lhs, rhs) == [kind |-> "SubNode", lhs |-> lhs, rhs |-> rhs]
LessNode(lhs, rhs) == [kind |-> "LessNode", lhs |-> lhs, rhs |-> rhs]
IfNode(condition, body) ==
    [kind |-> "IfNode", condition |-> condition, body |-> body]
CallNode(function, arg) ==
    [kind |-> "CallNode", function |-> function, arg |-> arg]
ReturnNode(rhs) == [kind |-> "ReturnNode", rhs |-> rhs]

LessConstNode(lhs, constant) ==
    [kind |-> "LessConstNode", lhs |-> lhs, constant |-> constant]
SubConstNode(lhs, constant) ==
    [kind |-> "SubConstNode", lhs |-> lhs, constant |-> constant]

BetterFusion_ConstNode(value) ==
    [kind |-> "BetterFusion_ConstNode", value |-> value]
BetterFusion_ArgNode == [kind |-> "BetterFusion_ArgNode"]
LessArgConstNode(lhs, rhs) ==
    [kind |-> "LessArgConstNode", lhs |-> lhs, rhs |-> rhs]
SubArgConstNode(lhs, rhs) ==
    [kind |-> "SubArgConstNode", lhs |-> lhs, rhs |-> rhs]
BetterFusion_CallNode(function, arg) ==
    [kind |-> "BetterFusion_CallNode", function |-> function, arg |-> arg]

CallAnyNode(function, arg) ==
    [kind |-> "CallAnyNode", function |-> function, arg |-> arg]
IfElseNode(condition, ifBody, elseBody) ==
    [kind |-> "IfElseNode", condition |-> condition, ifBody |-> ifBody,
     elseBody |-> elseBody]

----------------------------------------------------------------------------
(* The trees the fib() drivers build *)

\* Simplest::fib: function->init({...})
Simplest_function ==
    << IfNode(LessNode(ArgNode, ConstNode(U32(2))),
              ReturnNode(ArgNode)),
       ReturnNode(
           AddNode(CallNode("function", SubNode(ArgNode, ConstNode(U32(1)))),
                   CallNode("function", SubNode(ArgNode, ConstNode(U32(2)))))) >>

\* Simplest::fib, SimpleFusion::fib: CallNode* call
Simplest_call(k) == CallNode("function", ConstNode(U32(k)))

\* SimpleFusion::fib: function->init({...})
SimpleFusion_function ==
    << IfNode(LessConstNode(ArgNode, U32(2)),
              ReturnNode(ArgNode)),
       ReturnNode(
           AddNode(CallNode("function", SubConstNode(ArgNode, U32(1))),
                   CallNode("function", SubConstNode(ArgNode, U32(2))))) >>

\* BetterFusion::fib: function->init({...})
BetterFusion_function ==
    << IfNode(LessArgConstNode(BetterFusion_ArgNode,
                               BetterFusion_ConstNode(U32(2))),
              ReturnNode(BetterFusion_ArgNode)),
       ReturnNode(
           AddNode(
               BetterFusion_CallNode("function",
                   SubArgConstNode(BetterFusion_ArgNode,
                                   BetterFusion_ConstNode(U32(1)))),
               BetterFusion_CallNode("function",
                   SubArgConstNode(BetterFusion_ArgNode,
                                   BetterFusion_ConstNode(U32(2)))))) >>

\* BetterFusion::fib: CallNode* call
BetterFusion_call(k) ==
    BetterFusion_CallNode("function", BetterFusion_ConstNode(U32(k)))

\* SimplifyCalls::fib: IfElseNode function, after its three assignments
SimplifyCalls_function ==
    IfElseNode(
        LessArgConstNode(BetterFusion_ArgNode, BetterFusion_ConstNode(U32(2))),
        BetterFusion_ArgNode,
        AddNode(
            CallAnyNode("function",
                SubArgConstNode(BetterFusion_ArgNode,
                                BetterFusion_ConstNode(U32(1)))),
            CallAnyNode("function",
                SubArgConstNode(BetterFusion_ArgNode,
                                BetterFusion_ConstNode(U32(2))))))

\* SimplifyCalls::fib: CallAnyNode call
SimplifyCalls_call(k) ==
    CallAnyNode("function", BetterFusion_ConstNode(U32(k)))

Stages == {"Simplest", "SimpleFusion", "BetterFusion", "SimplifyCalls"}

----------------------------------------------------------------------------
(* Other trees a driver can build from the nodes of namespace Simplest      *)

\* A recursion of depth k + 1: down(a) = a < 1 ? a : down(a - 1)
Countdown_down ==
    << IfNode(LessNode(ArgNode, ConstNode(U32(1))), ReturnNode(ArgNode)),
       ReturnNode(CallNode("down", SubNode(ArgNode, ConstNode(U32(1))))) >>

\* A Return inside a nested If, and a second statement that returns 9.
Mixed_leaf ==
    << IfNode(LessNode(ArgNode, ConstNode(U32(4))),
              IfNode(LessNode(ConstNode(Zero), ArgNode), ReturnNode(ArgNode))),
       ReturnNode(ConstNode(U32(9))) >>

\* A body in which no Return fires when the argument is 1 or more.
Mixed_noret ==
    << IfNode(LessNode(ArgNode, ConstNode(U32(1))),
              ReturnNode(ConstNode(U32(5)))) >>

\* A call in a statement that is not the last one, then two sibling calls.
Mixed_main ==
    << IfNode(LessNode(CallNode("leaf", ArgNode), ConstNode(U32(3))),
              IfNode(LessNode(ArgNode, ConstNode(U32(2))),
                     ReturnNode(ConstNode(U32(7))))),
       ReturnNode(AddNode(CallNode("leaf", ArgNode),
                          CallNode("noret", ArgNode))) >>

TestTrees == {"Countdown", "Mixed", "NoReturn"}

Programs == Stages \cup TestTrees

\* The Function objects of a program, by the name its CallNodes hold.
Functions(p) ==
    CASE p = "Simplest" -> [function |-> Simplest_function]
      [] p = "SimpleFusion" -> [function |-> SimpleFusion_function]
      [] p = "BetterFusion" -> [function |-> BetterFusion_function]
      [] p = "Countdown" -> [down |-> Countdown_down]
      [] p \in {"Mixed", "NoReturn"} ->
            [leaf |-> Mixed_leaf, noret |-> Mixed_noret, main |-> Mixed_main]
      [] OTHER -> [none |-> << >>]

\* The nodes a CallAnyNode of a program points to, by name.
Callees(p) ==
    CASE p = "SimplifyCalls" -> [function |-> SimplifyCalls_function]
      [] OTHER -> [none |-> ConstNode(Zero)]

\* The node the driver evaluates.
Entry(p, k) ==
    CASE p \in {"Simplest", "SimpleFusion"} -> Simplest_call(k)
      [] p = "BetterFusion" -> BetterFusion_call(k)
      [] p = "SimplifyCalls" -> SimplifyCalls_call(k)
      [] p = "Countdown" -> CallNode("down", ConstNode(U32(k)))
      [] p = "Mixed" -> CallNode("main", ConstNode(U32(k)))
      [] p = "NoReturn" -> CallNode("noret", ConstNode(U32(k)))

\* The arguments each program is run on.
Inputs(p) ==
    CASE p \in Stages -> 0 .. MaxArg
      [] p = "Countdown" ->
            {0, 1, StackCapacity - 1, StackCapacity,
             StackCapacity + AdjacentSlots - 1}
      [] OTHER -> 0 .. 4

\* The order in which a build evaluates the two operands of lhs + rhs,
\* lhs - rhs and lhs < rhs: C++ leaves it to the compiler.
Builds == [AddNode : BOOLEAN, SubNode : BOOLEAN, LessNode : BOOLEAN]

\* What new uint32_t[4096] may hold before it is written.
Garbage == {Zero, <<43981, 52719>>}

----------------------------------------------------------------------------
(* The state of an evaluation, and the eval methods as steps on it *)

State ==
    [program |-> program, n |-> n, build |-> build, garbage |-> garbage,
     stopForReturn |-> stopForReturn, returnValue |-> returnValue,
     stack |-> stack, stackTop |-> stackTop,
     frames |-> frames, ret |-> ret, status |-> status, oob |-> oob]

CallKinds == {"CallNode", "BetterFusion_CallNode", "CallAnyNode"}
ReadKinds == {"ArgNode", "BetterFusion_ArgNode", "LessArgConstNode",
              "SubArgConstNode"}

\* A new activation of node->eval(ctx): its node, its position pc, the
\* operand value it keeps (acc) and its loop counter i. The other fields
\* are history: top0 and stack0 are stackTop and the stack when the
\* activation began (stack0 is kept for calls), fired says that a ReturnNode
\* has executed with this call as the innermost one, and stored is the value
\* that ReturnNode stored.
Frame(s, node) ==
    [node |-> node, pc |-> 0, acc |-> Zero, i |-> 0, top0 |-> s.stackTop,
     stack0 |-> IF node.kind \in CallKinds THEN s.stack ELSE << >>,
     fired |-> FALSE, stored |-> Zero]

Top(s) == s.frames[Len(s.frames)]
Rest(s) == SubSeq(s.frames, 1, Len(s.frames) - 1)

\* The activation returns v to its caller.
Leave(s, v) == [s EXCEPT !.frames = Rest(s), !.ret = v]

\* The activation moves on to position pc.
Goto(s, pc) == [s EXCEPT !.frames[Len(s.frames)].pc = pc]

\* The activation calls child->eval(ctx) and resumes at position pc.
Enter(s, child, pc) ==
    [s EXCEPT !.frames = Append([s.frames EXCEPT ![Len(s.frames)].pc = pc],
                                Frame(s, child))]

\* The index of the innermost call among the activations fs, or 0.
InnermostCall(fs) ==
    LET calls == {k \in 1 .. Len(fs) : fs[k].node.kind \in CallKinds}
    IN  IF calls = {} THEN 0
        ELSE CHOOSE k \in calls : \A j \in calls : j <= k

\* History: a ReturnNode below the innermost call of fs has stored v.
MarkFired(fs, v) ==
    LET k == InnermostCall(fs)
    IN  IF k = 0 THEN fs ELSE [fs EXCEPT ![k].fired = TRUE, ![k].stored = v]

\* An access inside the array does the one thing the language defines.
Defined == [what |-> "defined", value |-> Zero]

\* What ctx->stack[ctx->stackTop] = v can do: inside the array it stores;
\* past its end it is undefined, and the build either faults or overwrites
\* the heap word that happens to follow.
PushOutcomes(top) ==
    IF top < StackCapacity THEN {Defined}
    ELSE {[what |-> "crash", value |-> Zero]}
         \cup (IF top < MemSlots THEN {[what |-> "corrupt", value |-> Zero]}
               ELSE {})

\* What ctx->stack[ctx->stackTop - 1] can do: stackTop - 1 wraps to 2^32 - 1
\* when stackTop is 0, an index outside the array: a fault, or whatever the
\* word at that address holds.
ReadOutcomes(top) ==
    IF top = 0
    THEN {[what |-> "crash", value |-> Zero]}
         \cup {[what |-> "garbage", value |-> g] : g \in Garbage}
    ELSE {Defined}

\* The process is killed.
Crash(s) == [s EXCEPT !.status = "crashed", !.oob = TRUE]

\* ConstNode::eval
ConstNode_eval(s) == Leave(s, Top(s).node.value)

\* BetterFusion::ConstNode::eval, through compute
BetterFusion_ConstNode_eval(s) == Leave(s, Top(s).node.value)

\* ctx->stack[ctx->stackTop - 1], with outcome o
StackTopValue(s, o) ==
    IF o.what = "garbage" THEN o.value ELSE s.stack[s.stackTop - 1]

\* ArgNode::eval
ArgNode_eval(s, o) ==
    IF o.what = "crash" THEN Crash(s)
    ELSE [Leave(s, StackTopValue(s, o)) EXCEPT !.oob = s.oob \/ o # Defined]

\* BetterFusion::ArgNode::eval, through compute
BetterFusion_ArgNode_eval(s, o) ==
    IF o.what = "crash" THEN Crash(s)
    ELSE [Leave(s, StackTopValue(s, o)) EXCEPT !.oob = s.oob \/ o # Defined]

\* The operand a build evaluates first, and the one it evaluates second.
FirstOperand(s) ==
    IF s.build[Top(s).node.kind] THEN Top(s).node.lhs ELSE Top(s).node.rhs
SecondOperand(s) ==
    IF s.build[Top(s).node.kind] THEN Top(s).node.rhs ELSE Top(s).node.lhs

\* The values of lhs and of rhs once both operands have returned.
LhsValue(s) == IF s.build[Top(s).node.kind] THEN Top(s).acc ELSE s.ret
RhsValue(s) == IF s.build[Top(s).node.kind] THEN s.ret ELSE Top(s).acc

\* The activation keeps the value just returned and calls the second operand.
EnterSecond(s) ==
    [s EXCEPT !.frames =
        Append([s.frames EXCEPT ![Len(s.frames)].pc = 2,
                                ![Len(s.frames)].acc = s.ret],
               Frame(s, SecondOperand(s)))]

\* A faulty AddNode::eval, which subtracts.
AddNode_eval_subtracts(s) ==
    LET f == Top(s) IN
    CASE f.pc = 0 -> Enter(s, FirstOperand(s), 1)
      [] f.pc = 1 -> EnterSecond(s)
      [] f.pc = 2 -> Leave(s, Sub32(LhsValue(s), RhsValue(s)))

\* AddNode::eval
AddNode_eval(s) ==
    LET f == Top(s) IN
    CASE f.pc = 0 -> Enter(s, FirstOperand(s), 1)
      [] f.pc = 1 -> EnterSecond(s)
      [] f.pc = 2 -> Leave(s, Add32(LhsValue(s), RhsValue(s)))

\* SubNode::eval
SubNode_eval(s) ==
    LET f == Top(s) IN
    CASE f.pc = 0 -> Enter(s, FirstOperand(s), 1)
      [] f.pc = 1 -> EnterSecond(s)
      [] f.pc = 2 -> Leave(s, Sub32(LhsValue(s), RhsValue(s)))

\* LessNode::eval
LessNode_eval(s) ==
    LET f == Top(s) IN
    CASE f.pc = 0 -> Enter(s, FirstOperand(s), 1)
      [] f.pc = 1 -> EnterSecond(s)
      [] f.pc = 2 -> Leave(s, Less32(LhsValue(s), RhsValue(s)))

\* A faulty LessConstNode::eval, which compares constant < lhs.
LessConstNode_eval_reversed(s) ==
    LET f == Top(s) IN
    CASE f.pc = 0 -> Enter(s, f.node.lhs, 1)
      [] f.pc = 1 -> Leave(s, Less32(f.node.constant, s.ret))

\* SimpleFusion::LessConstNode::eval
LessConstNode_eval(s) ==
    LET f == Top(s) IN
    CASE f.pc = 0 -> Enter(s, f.node.lhs, 1)
      [] f.pc = 1 -> Leave(s, Less32(s.ret, f.node.constant))

\* A faulty SubConstNode::eval, which computes constant - lhs.
SubConstNode_eval_reversed(s) ==
    LET f == Top(s) IN
    CASE f.pc = 0 -> Enter(s, f.node.lhs, 1)
      [] f.pc = 1 -> Leave(s, Sub32(f.node.constant, s.ret))

\* SimpleFusion::SubConstNode::eval
SubConstNode_eval(s) ==
    LET f == Top(s) IN
    CASE f.pc = 0 -> Enter(s, f.node.lhs, 1)
      [] f.pc = 1 -> Leave(s, Sub32(s.ret, f.node.constant))

\* A faulty LessArgConstNode::eval, which compares with <=.
LessArgConstNode_eval_or_equal(s, o) ==
    LET f == Top(s)
        a == StackTopValue(s, o)
    IN  IF o.what = "crash" THEN Crash(s)
        ELSE [Leave(s, IF a = f.node.rhs.value THEN One
                       ELSE Less32(a, f.node.rhs.value))
                 EXCEPT !.oob = s.oob \/ o # Defined]

\* BetterFusion::LessArgConstNode::eval: lhs->compute(ctx) < rhs->compute(ctx),
\* both computes inlined
LessArgConstNode_eval(s, o) ==
    LET f == Top(s) IN
    IF o.what = "crash" THEN Crash(s)
    ELSE [Leave(s, Less32(StackTopValue(s, o), f.node.rhs.value))
             EXCEPT !.oob = s.oob \/ o # Defined]

\* BetterFusion::SubArgConstNode::eval
SubArgConstNode_eval(s, o) ==
    LET f == Top(s) IN
    IF o.what = "crash" THEN Crash(s)
    ELSE [Leave(s, Sub32(StackTopValue(s, o), f.node.rhs.value))
             EXCEPT !.oob = s.oob \/ o # Defined]

\* IfNode::eval
IfNode_eval(s) ==
    LET f == Top(s) IN
    CASE f.pc = 0 -> Enter(s, f.node.condition, 1)
      [] f.pc = 1 -> IF Truthy(s.ret) THEN Enter(s, f.node.body, 2)
                          ELSE Leave(s, Zero)
      [] f.pc = 2 -> Leave(s, Zero)

\* SimplifyCalls::IfElseNode::eval
IfElseNode_eval(s) ==
    LET f == Top(s) IN
    CASE f.pc = 0 -> Enter(s, f.node.condition, 1)
      [] f.pc = 1 -> IF Truthy(s.ret) THEN Enter(s, f.node.ifBody, 2)
                          ELSE Enter(s, f.node.elseBody, 2)
      [] f.pc = 2 -> Leave(s, s.ret)

\* ReturnNode::eval
ReturnNode_eval(s) ==
    LET f == Top(s) IN
    CASE f.pc = 0 -> Enter(s, f.node.rhs, 1)
      [] f.pc = 1 ->
            [s EXCEPT !.returnValue = s.ret,
                      !.stopForReturn = TRUE,
                      !.frames = MarkFired(Rest(s), s.ret),
                      !.ret = Zero]

\* A faulty push, which stores one slot too low when a slot is there.
Push_below(s, v, o) ==
    IF o.what = "crash" THEN Crash(s)
    ELSE [s EXCEPT !.stack[IF s.stackTop = 0 THEN 0 ELSE s.stackTop - 1] = v,
                   !.stackTop = s.stackTop + 1,
                   !.oob = s.oob \/ o # Defined]

\* ctx->stack[ctx->stackTop] = v; ctx->stackTop += 1, with outcome o
Push(s, v, o) ==
    IF o.what = "crash" THEN Crash(s)
    ELSE [s EXCEPT !.stack[s.stackTop] = v,
                   !.stackTop = s.stackTop + 1,
                   !.oob = s.oob \/ o # Defined]

\* The statements of the Function a CallNode points to.
Body(s) == Functions(s.program)[Top(s).node.function]

\* A faulty Simplest::CallNode::eval, which leaves stopForReturn as it finds
\* it.
CallNode_eval_keeps_signal(s, o) ==
    LET f == Top(s) IN
    CASE f.pc = 0 -> Enter(s, f.node.arg, 1)
      [] f.pc = 1 ->
            IF o.what = "crash" THEN Crash(s) ELSE Goto(Push(s, s.ret, o), 2)
      [] f.pc = 2 ->
            IF f.i < Len(Body(s))
            THEN Enter(s, Body(s)[f.i + 1], 3)
            ELSE Goto(s, 4)
      [] f.pc = 3 ->
            IF s.stopForReturn THEN Goto(s, 4)
            ELSE [s EXCEPT !.frames[Len(s.frames)].pc = 2,
                           !.frames[Len(s.frames)].i = f.i + 1]
      [] f.pc = 4 ->
            [s EXCEPT !.stackTop = s.stackTop - 1,
                      !.frames = Rest(s),
                      !.ret = s.returnValue]

\* Simplest::CallNode::eval
CallNode_eval(s, o) ==
    LET f == Top(s) IN
    CASE f.pc = 0 -> Enter(s, f.node.arg, 1)
      [] f.pc = 1 ->
            \* ctx->stack[ctx->stackTop] = arg->eval(ctx); ctx->stackTop += 1
            IF o.what = "crash" THEN Crash(s) ELSE Goto(Push(s, s.ret, o), 2)
      [] f.pc = 2 ->
            \* i < end_i
            IF f.i < Len(Body(s))
            THEN Enter(s, Body(s)[f.i + 1], 3)
            ELSE Goto(s, 4)
      [] f.pc = 3 ->
            \* if (ctx->stopForReturn) break; otherwise i++
            IF s.stopForReturn THEN Goto(s, 4)
            ELSE [s EXCEPT !.frames[Len(s.frames)].pc = 2,
                           !.frames[Len(s.frames)].i = f.i + 1]
      [] f.pc = 4 ->
            [s EXCEPT !.stopForReturn = FALSE,
                      !.stackTop = s.stackTop - 1,
                      !.frames = Rest(s),
                      !.ret = s.returnValue]

\* A faulty BetterFusion::CallNode::eval, whose loop has no break.
BetterFusion_CallNode_eval_no_break(s, o) ==
    LET f == Top(s) IN
    CASE f.pc = 0 -> Enter(s, f.node.arg, 1)
      [] f.pc = 1 ->
            IF o.what = "crash" THEN Crash(s) ELSE Goto(Push(s, s.ret, o), 2)
      [] f.pc = 2 ->
            IF f.i < Len(Body(s))
            THEN Enter(s, Body(s)[f.i + 1], 3)
            ELSE Goto(s, 4)
      [] f.pc = 3 ->
            [s EXCEPT !.frames[Len(s.frames)].pc = 2,
                      !.frames[Len(s.frames)].i = f.i + 1]
      [] f.pc = 4 ->
            [s EXCEPT !.stopForReturn = FALSE,
                      !.stackTop = s.stackTop - 1,
                      !.frames = Rest(s),
                      !.ret = s.returnValue]

\* BetterFusion::CallNode::eval
BetterFusion_CallNode_eval(s, o) ==
    LET f == Top(s) IN
    CASE f.pc = 0 -> Enter(s, f.node.arg, 1)
      [] f.pc = 1 ->
            \* ctx->stack[ctx->stackTop] = arg->eval(ctx); ctx->stackTop += 1
            IF o.what = "crash" THEN Crash(s) ELSE Goto(Push(s, s.ret, o), 2)
      [] f.pc = 2 ->
            IF f.i < Len(Body(s))
            THEN Enter(s, Body(s)[f.i + 1], 3)
            ELSE Goto(s, 4)
      [] f.pc = 3 ->
            IF s.stopForReturn THEN Goto(s, 4)
            ELSE [s EXCEPT !.frames[Len(s.frames)].pc = 2,
                           !.frames[Len(s.frames)].i = f.i + 1]
      [] f.pc = 4 ->
            [s EXCEPT !.stopForReturn = FALSE,
                      !.stackTop = s.stackTop - 1,
                      !.frames = Rest(s),
                      !.ret = s.returnValue]

\* A faulty CallAnyNode::eval, which does not pop.
CallAnyNode_eval_no_pop(s, o) ==
    LET f == Top(s) IN
    CASE f.pc = 0 -> Enter(s, f.node.arg, 1)
      [] f.pc = 1 ->
            IF o.what = "crash" THEN Crash(s) ELSE Goto(Push(s, s.ret, o), 2)
      [] f.pc = 2 ->
            Enter(s, Callees(s.program)[f.node.function], 3)
      [] f.pc = 3 ->
            [s EXCEPT !.stopForReturn = FALSE,
                      !.frames = Rest(s),
                      !.ret = s.ret]

\* SimplifyCalls::CallAnyNode::eval
CallAnyNode_eval(s, o) ==
    LET f == Top(s) IN
    CASE f.pc = 0 -> Enter(s, f.node.arg, 1)
      [] f.pc = 1 ->
            \* ctx->stack[ctx->stackTop] = arg->eval(ctx); ctx->stackTop += 1
            IF o.what = "crash" THEN Crash(s) ELSE Goto(Push(s, s.ret, o), 2)
      [] f.pc = 2 ->
            \* uint32_t result = function->eval(ctx)
            Enter(s, Callees(s.program)[f.node.function], 3)
      [] f.pc = 3 ->
            [s EXCEPT !.stopForReturn = FALSE,
                      !.stackTop = s.stackTop - 1,
                      !.frames = Rest(s),
                      !.ret = s.ret]

\* fib: uint32_t result = call->eval(&ctx) has returned
Finish(s) == [s EXCEPT !.status = "done"]

\* What the next step of s can do. With 0 < stackTop < StackCapacity both
\* stack[stackTop] and stack[stackTop - 1] are inside the array.
Outcomes(s) ==
    IF 0 < s.stackTop /\ s.stackTop < StackCapacity THEN {Defined}
    ELSE IF s.status # "running" \/ s.frames = << >> THEN {Defined}
    ELSE IF Top(s).node.kind \in ReadKinds THEN ReadOutcomes(s.stackTop)
    ELSE IF Top(s).node.kind \in CallKinds /\ Top(s).pc = 1
         THEN PushOutcomes(s.stackTop)
    ELSE {Defined}

\* Virtual dispatch: the eval of the innermost activation, with outcome o.
Step(s, o) ==
    IF s.frames = << >> THEN Finish(s)
    ELSE
    LET kind == Top(s).node.kind
    IN  CASE kind = "ConstNode" -> ConstNode_eval(s)
          [] kind = "ArgNode" -> ArgNode_eval(s, o)
          [] kind = "AddNode" -> AddNode_eval(s)
          [] kind = "SubNode" -> SubNode_eval(s)
          [] kind = "LessNode" -> LessNode_eval(s)
          [] kind = "IfNode" -> IfNode_eval(s)
          [] kind = "CallNode" -> CallNode_eval(s, o)
          [] kind = "ReturnNode" -> ReturnNode_eval(s)
          [] kind = "LessConstNode" -> LessConstNode_eval(s)
          [] kind = "SubConstNode" -> SubConstNode_eval(s)
          [] kind = "BetterFusion_ConstNode" -> BetterFusion_ConstNode_eval(s)
          [] kind = "BetterFusion_ArgNode" -> BetterFusion_ArgNode_eval(s, o)
          [] kind = "LessArgConstNode" -> LessArgConstNode_eval(s, o)
          [] kind = "SubArgConstNode" -> SubArgConstNode_eval(s, o)
          [] kind = "BetterFusion_CallNode" -> BetterFusion_CallNode_eval(s, o)
          [] kind = "CallAnyNode" -> CallAnyNode_eval(s, o)
          [] kind = "IfElseNode" -> IfElseNode_eval(s)

\* Context ctx; and the driver about to evaluate `entry' on it: the slots of
\* the new array hold g.
Fresh(p, k, b, g, entry) ==
    [program |-> p, n |-> k, build |-> b, garbage |-> g,
     stopForReturn |-> FALSE, returnValue |-> Zero,
     stack |-> [j \in 0 .. MemSlots - 1 |-> g], stackTop |-> 0,
     frames |-> << [node |-> entry, pc |-> 0, acc |-> Zero, i |-> 0,
                    top0 |-> 0,
                    stack0 |-> IF entry.kind \in CallKinds
                               THEN [j \in 0 .. MemSlots - 1 |-> g]
                               ELSE << >>,
                    fired |-> FALSE, stored |-> Zero] >>,
     ret |-> Zero, status |-> "running", oob |-> FALSE]

\* The state after at most k steps of s. It stops where the evaluation
\* ends, and where the next step is undefined: status "undefined".
RECURSIVE Run(_, _)
Run(s, k) ==
    IF s.status # "running" THEN s
    ELSE IF k = 1
         THEN IF Outcomes(s) = {Defined} THEN Step(s, Defined)
              ELSE [s EXCEPT !.status = "undefined"]
    ELSE Run(Run(s, k \div 2), k - (k \div 2))

\* uint32_t fib(uint32_t n) of the global namespace, on 0 <= k < 2^31
RECURSIVE fib(_)
fib(k) ==
    IF Less32(U32(k), U32(2)) = One THEN U32(k)
    ELSE Add32(fib(k - 1), fib(k - 2))

\* More steps than any evaluation of the model takes.
MaxSteps == 2^21

----------------------------------------------------------------------------
(* Spec: one evaluation, step by step *)

Become(t) ==
    /\ program' = t.program
    /\ n' = t.n
    /\ build' = t.build
    /\ garbage' = t.garbage
    /\ stopForReturn' = t.stopForReturn
    /\ returnValue' = t.returnValue
    /\ stack' = t.stack
    /\ stackTop' = t.stackTop
    /\ frames' = t.frames
    /\ ret' = t.ret
    /\ status' = t.status
    /\ oob' = t.oob

\* The innermost activation, the one that runs, is an eval of kind `kind'.
At(kind) ==
    /\ status = "running"
    /\ frames # << >>
    /\ Top(State).node.kind = kind

ConstNode_step ==
    /\ At("ConstNode")
    /\ Become(ConstNode_eval(State))
    /\ UNCHANGED <<results, operands>>

ArgNode_step ==
    /\ At("ArgNode")
    /\ \E o \in Outcomes(State) : Become(ArgNode_eval(State, o))
    /\ UNCHANGED <<results, operands>>

AddNode_step ==
    /\ At("AddNode")
    /\ Become(AddNode_eval(State))
    /\ UNCHANGED <<results, operands>>

SubNode_step ==
    /\ At("SubNode")
    /\ Become(SubNode_eval(State))
    /\ UNCHANGED <<results, operands>>

LessNode_step ==
    /\ At("LessNode")
    /\ Become(LessNode_eval(State))
    /\ UNCHANGED <<results, operands>>

IfNode_step ==
    /\ At("IfNode")
    /\ Become(IfNode_eval(State))
    /\ UNCHANGED <<results, operands>>

CallNode_step ==
    /\ At("CallNode")
    /\ \E o \in Outcomes(State) : Become(CallNode_eval(State, o))
    /\ UNCHANGED <<results, operands>>

ReturnNode_step ==
    /\ At("ReturnNode")
    /\ Become(ReturnNode_eval(State))
    /\ UNCHANGED <<results, operands>>

LessConstNode_step ==
    /\ At("LessConstNode")
    /\ Become(LessConstNode_eval(State))
    /\ UNCHANGED <<results, operands>>

SubConstNode_step ==
    /\ At("SubConstNode")
    /\ Become(SubConstNode_eval(State))
    /\ UNCHANGED <<results, operands>>

BetterFusion_ConstNode_step ==
    /\ At("BetterFusion_ConstNode")
    /\ Become(BetterFusion_ConstNode_eval(State))
    /\ UNCHANGED <<results, operands>>

BetterFusion_ArgNode_step ==
    /\ At("BetterFusion_ArgNode")
    /\ \E o \in Outcomes(State) : Become(BetterFusion_ArgNode_eval(State, o))
    /\ UNCHANGED <<results, operands>>

LessArgConstNode_step ==
    /\ At("LessArgConstNode")
    /\ \E o \in Outcomes(State) : Become(LessArgConstNode_eval(State, o))
    /\ UNCHANGED <<results, operands>>

SubArgConstNode_step ==
    /\ At("SubArgConstNode")
    /\ \E o \in Outcomes(State) : Become(SubArgConstNode_eval(State, o))
    /\ UNCHANGED <<results, operands>>

BetterFusion_CallNode_step ==
    /\ At("BetterFusion_CallNode")
    /\ \E o \in Outcomes(State) : Become(BetterFusion_CallNode_eval(State, o))
    /\ UNCHANGED <<results, operands>>

CallAnyNode_step ==
    /\ At("CallAnyNode")
    /\ \E o \in Outcomes(State) : Become(CallAnyNode_eval(State, o))
    /\ UNCHANGED <<results, operands>>

IfElseNode_step ==
    /\ At("IfElseNode")
    /\ Become(IfElseNode_eval(State))
    /\ UNCHANGED <<results, operands>>

Return_to_fib ==
    /\ status = "running"
    /\ frames = << >>
    /\ Become(Finish(State))
    /\ UNCHANGED <<results, operands>>

\* The evaluation begins in state t.
Begin(t) ==
    /\ program = t.program
    /\ n = t.n
    /\ build = t.build
    /\ garbage = t.garbage
    /\ stopForReturn = t.stopForReturn
    /\ returnValue = t.returnValue
    /\ stack = t.stack
    /\ stackTop = t.stackTop
    /\ frames = t.frames
    /\ ret = t.ret
    /\ status = t.status
    /\ oob = t.oob

Init ==
    /\ \E p \in Programs, b \in Builds, g \in Garbage :
         \E k \in Inputs(p) :
            Begin(Fresh(p, k, b, g, Entry(p, k)))
    /\ results = << >>
    /\ operands = <<Zero, Zero>>

Next ==
    \/ ConstNode_step
    \/ ArgNode_step
    \/ AddNode_step
    \/ SubNode_step
    \/ LessNode_step
    \/ IfNode_step
    \/ CallNode_step
    \/ ReturnNode_step
    \/ LessConstNode_step
    \/ SubConstNode_step
    \/ BetterFusion_ConstNode_step
    \/ BetterFusion_ArgNode_step
    \/ LessArgConstNode_step
    \/ SubArgConstNode_step
    \/ BetterFusion_CallNode_step
    \/ CallAnyNode_step
    \/ IfElseNode_step
    \/ Return_to_fib

Spec == Init /\ [][Next]_vars

----------------------------------------------------------------------------
(* SpecFib: a driver that calls the four fib() and the plain fib on the     *)
(* same argument, one after the other, each call one step.                  *)

\* What fib() of namespace p does from `Context ctx' to `return result'.
RunFib(p) == Run(Fresh(p, n, build, garbage, Entry(p, n)), MaxSteps)

\* The driver has made k calls, and now calls fib() of namespace p.
CallFib(k, p) ==
    /\ Len(results) = k
    /\ LET t == RunFib(p)
       IN  /\ Become(t)
           /\ results' = Append(results, t.ret)
    /\ UNCHANGED operands

Simplest_fib == CallFib(0, "Simplest")
SimpleFusion_fib == CallFib(1, "SimpleFusion")
BetterFusion_fib == CallFib(2, "BetterFusion")
SimplifyCalls_fib == CallFib(3, "SimplifyCalls")

\* The driver calls ::fib(n).
Baseline_fib ==
    /\ Len(results) = 4
    /\ results' = Append(results, fib(n))
    /\ UNCHANGED <<program, n, build, garbage, ctxVars, frames, ret, status,
                   oob, operands>>

\* The driver is about to make its first call.
Idle ==
    /\ program = "none"
    /\ stopForReturn = FALSE
    /\ returnValue = Zero
    /\ stack = [j \in 0 .. MemSlots - 1 |-> garbage]
    /\ stackTop = 0
    /\ frames = << >>
    /\ ret = Zero
    /\ status = "idle"
    /\ oob = FALSE
    /\ results = << >>

InitFib ==
    /\ operands = <<Zero, Zero>>
    /\ n \in 0 .. MaxFibArg
    /\ build \in Builds
    /\ garbage \in Garbage
    /\ Idle

NextFib ==
    \/ Simplest_fib
    \/ SimpleFusion_fib
    \/ BetterFusion_fib
    \/ SimplifyCalls_fib
    \/ Baseline_fib

SpecFib == InitFib /\ [][NextFib]_vars

----------------------------------------------------------------------------
(* SpecFibDeep: the same driver on the arguments 0, 1, 10 and 20. The       *)
(* argument 20 is run on the builds that evaluate the operands of - and <   *)
(* left to right (in the fib trees these operands change nothing), with     *)
(* either order for +.                                                      *)

ShallowArgs == {0, 1, 10}
DeepArgs == {20}
DeepBuilds == {b \in Builds : b.SubNode /\ b.LessNode}

InitFibDeep ==
    /\ operands = <<Zero, Zero>>
    /\ \/ n \in ShallowArgs /\ build \in Builds /\ garbage \in Garbage
       \/ n \in DeepArgs /\ build \in DeepBuilds /\ garbage = Zero
    /\ Idle

SpecFibDeep == InitFibDeep /\ [][NextFib]_vars

----------------------------------------------------------------------------
(* SpecFusion: the comparison and the subtraction of the argument and a     *)
(* constant, evaluated as the three stages build them, inside a call whose  *)
(* argument is a. operands is <<a, c>>.                                     *)

\* Arguments and constants: small ones, both sides of 2^16 and of 2^31, and
\* the largest two.
Samples ==
    {Zero, One, <<0, 2>>, <<0, 65535>>, <<1, 0>>, <<32767, 65535>>,
     <<32768, 0>>, <<65535, 65534>>, <<65535, 65535>>}

\* The Context inside a call that has pushed a, about to evaluate `node'.
InCall(node, a, b, g) ==
    LET s == [Fresh("Fusion", 0, b, g, node) EXCEPT !.stack[0] = a,
                                                    !.stackTop = 1]
    IN  [s EXCEPT !.frames = << Frame(s, node) >>]

\* The shapes of the three stages.
Less_trees(c) ==
    << LessNode(ArgNode, ConstNode(c)),
       LessConstNode(ArgNode, c),
       LessArgConstNode(BetterFusion_ArgNode, BetterFusion_ConstNode(c)) >>
Sub_trees(c) ==
    << SubNode(ArgNode, ConstNode(c)),
       SubConstNode(ArgNode, c),
       SubArgConstNode(BetterFusion_ArgNode, BetterFusion_ConstNode(c)) >>

\* What the Context holds.
ContextOf(s) ==
    [stopForReturn |-> s.stopForReturn, returnValue |-> s.returnValue,
     stack |-> s.stack, stackTop |-> s.stackTop]

\* The k-th evaluation: `node' is evaluated, and its value and the Context
\* it leaves are recorded.
EvalNode(k, node) ==
    /\ Len(results) = k
    /\ LET t == Run(InCall(node, operands[1], build, garbage), MaxSteps)
       IN  /\ Become(t)
           /\ results' = Append(results, [value |-> t.ret, status |-> t.status,
                                          context |-> ContextOf(t)])
    /\ UNCHANGED operands

Eval_LessNode == EvalNode(0, Less_trees(operands[2])[1])
Eval_LessConstNode == EvalNode(1, Less_trees(operands[2])[2])
Eval_LessArgConstNode == EvalNode(2, Less_trees(operands[2])[3])
Eval_SubNode == EvalNode(3, Sub_trees(operands[2])[1])
Eval_SubConstNode == EvalNode(4, Sub_trees(operands[2])[2])
Eval_SubArgConstNode == EvalNode(5, Sub_trees(operands[2])[3])

InitFusion ==
    /\ operands \in Samples \X Samples
    /\ n = 0
    /\ build \in Builds
    /\ garbage \in Garbage
    /\ Idle

NextFusion ==
    \/ Eval_LessNode
    \/ Eval_LessConstNode
    \/ Eval_LessArgConstNode
    \/ Eval_SubNode
    \/ Eval_SubConstNode
    \/ Eval_SubArgConstNode

SpecFusion == InitFusion /\ [][NextFusion]_vars

----------------------------------------------------------------------------
(* Properties                                                               *)

Running == status = "running" /\ frames # << >>
TopFrame == frames[Len(frames)]
IsCall(f) == f.node.kind \in CallKinds
IsLoopCall(f) == f.node.kind \in {"CallNode", "BetterFusion_CallNode"}

\* The next step is the push of a call; the next step is the exit of a call.
AtPush == Running /\ IsCall(TopFrame) /\ TopFrame.pc = 1
AtExit ==
    /\ Running
    /\ IsCall(TopFrame)
    /\ TopFrame.pc = IF TopFrame.node.kind = "CallAnyNode" THEN 3 ELSE 4

\* max(1, n)
DepthBound == IF n < 1 THEN 1 ELSE n

\* C1. For every argument of the bounded range, Simplest::fib,
\* SimpleFusion::fib, BetterFusion::fib, SimplifyCalls::fib and the plain
\* fib return the same uint32 value, and each tree evaluation runs to its
\* end without an access outside the stack.
CrossStageEquivalence ==
    /\ Len(results) >= 1 => status = "done" /\ ~oob
    /\ \A i, j \in 1 .. Len(results) : results[i] = results[j]

CrossStageEquivalence_witness ==
    /\ Len(results) = 5
    /\ n = 10
    /\ results[5] = U32(55)
    /\ results[1] = results[5]

\* C2. On a fresh Context each of the four strategies gives fib(0) = 0,
\* fib(1) = 1, fib(10) = 55 and fib(20) = 6765.
FibValues ==
    \A i \in 1 .. Len(results) :
        /\ status = "done"
        /\ n = 0 => results[i] = U32(0)
        /\ n = 1 => results[i] = U32(1)
        /\ n = 10 => results[i] = U32(55)
        /\ n = 20 => results[i] = U32(6765)

FibValues_witness ==
    /\ n = 20
    /\ Len(results) = 4
    /\ \A i \in 1 .. 4 : results[i] = U32(6765)

\* C3. A call raises stackTop by exactly one when it pushes its argument and
\* lowers it by exactly one when it exits, to the value it had when the call
\* began; no other step changes stackTop; and when the top-level call has
\* returned stackTop is 0.
StackDiscipline_step ==
    /\ AtPush /\ status' = "running" => stackTop' = stackTop + 1
    /\ AtExit => stackTop' = stackTop - 1 /\ stackTop' = TopFrame.top0
    /\ ~AtPush /\ ~AtExit => stackTop' = stackTop

StackDiscipline ==
    /\ [](status = "done" => stackTop = 0)
    /\ [][StackDiscipline_step]_vars

StackDiscipline_witness ==
    /\ program = "SimplifyCalls"
    /\ n = 5
    /\ status = "done"
    /\ ret = U32(5)
    /\ stackTop = 0

\* C4. stopForReturn is false whenever a call returns, and at every moment
\* it says whether a Return has executed in the innermost call still running
\* (it is false once the top-level call is over): a Return in one call,
\* nested in Ifs or not, stops neither its caller nor a sibling call, and a
\* call leaves its statement loop only after its own Return or its last
\* statement.
ReturnSignal_state ==
    LET k == InnermostCall(frames)
    IN  /\ k = 0 => ~stopForReturn
        /\ k # 0 => stopForReturn = frames[k].fired
        /\ \A j \in 1 .. Len(frames) :
              IsLoopCall(frames[j]) /\ frames[j].pc = 4 =>
                 \/ frames[j].fired
                 \/ frames[j].i = Len(Functions(program)[frames[j].node.function])

ReturnSignalIsolation ==
    /\ []ReturnSignal_state
    /\ [][AtExit => ~stopForReturn']_vars

\* In Mixed on 2 the callee leaf has returned 2 from inside two Ifs, and main
\* goes on to its second statement.
ReturnSignalIsolation_witness ==
    /\ program = "Mixed"
    /\ n = 2
    /\ Len(frames) = 1
    /\ frames[1].pc = 2
    /\ frames[1].i = 1
    /\ returnValue = U32(2)
    /\ ~stopForReturn

\* C5. A push that would exceed the capacity of the stack ends the
\* evaluation in a StackOverflow outcome and writes nothing.
OverflowDetection ==
    [][AtPush /\ stackTop >= StackCapacity =>
          status' = "StackOverflow" /\ stack' = stack]_vars

\* C6. For every argument a and constant c, LessConst and LessArgConst give
\* the value of Less(Arg, Const c), and SubConst and SubArgConst the value
\* of Sub(Arg, Const c), wrap-around included; every one of the six ends,
\* and leaves the Context as it found it.
FusionTransparency ==
    \A i \in 1 .. Len(results) :
        /\ results[i].status = "done"
        /\ results[i].value = results[IF i <= 3 THEN 1 ELSE 4].value
        /\ results[i].context =
              [stopForReturn |-> FALSE, returnValue |-> Zero,
               stack |-> [j \in 0 .. MemSlots - 1 |->
                             IF j = 0 THEN operands[1] ELSE garbage],
               stackTop |-> 1]

\* 0 - 1 wraps to 2^32 - 1, and 0 < 1.
FusionTransparency_witness ==
    /\ operands = <<Zero, One>>
    /\ Len(results) = 6
    /\ results[2].value = One
    /\ results[6].value = <<65535, 65535>>

\* C7. A call in whose body no Return has executed returns 0, whatever the
\* Context held before.
MissingReturnYieldsZero ==
    [][AtExit /\ IsLoopCall(TopFrame) /\ ~TopFrame.fired => ret' = Zero]_vars

\* C8. Once a Return has executed in a body, directly or inside Ifs, no
\* later statement of that body is evaluated, and the call returns the value
\* that Return stored; and in the four fib trees the second statement, the
\* sum of the two recursive calls, is never evaluated for an argument
\* below 2.
EarlyExit_state ==
    \A k \in 1 .. Len(frames) :
        LET f == frames[k]
        IN  /\ IsLoopCall(f) /\ f.fired => f.pc \in {3, 4}
            /\ program \in Stages /\ IsLoopCall(f) /\ f.i >= 1 =>
                  Less32(stack[f.top0], U32(2)) = Zero
            /\ program \in Stages /\ f.node.kind = "AddNode" =>
                  Less32(stack[f.top0 - 1], U32(2)) = Zero

EarlyExit_step ==
    /\ AtExit /\ TopFrame.fired => ret' = TopFrame.stored
    /\ \A k \in 1 .. Len(frames) :
          IsLoopCall(frames[k]) /\ frames[k].fired /\ k <= Len(frames') =>
             frames'[k].i = frames[k].i

EarlyExit == []EarlyExit_state /\ [][EarlyExit_step]_vars

\* In Mixed on 1 the Return inside the two Ifs of main's first statement has
\* stored 7, and main leaves its loop with the second statement untouched.
EarlyExit_witness ==
    /\ program = "Mixed"
    /\ n = 1
    /\ Len(frames) = 1
    /\ frames[1].fired
    /\ frames[1].pc = 4
    /\ frames[1].i = 0
    /\ returnValue = U32(7)

\* C9. A call evaluates its argument expression before it pushes: until the
\* push stackTop is what it was when the call began, so the expression reads
\* the caller's argument. And from its beginning to its exit a call leaves
\* every slot below that stackTop as it found it.
FramePreservation_state ==
    \A k \in 1 .. Len(frames) :
        IsCall(frames[k]) =>
           /\ \A j \in 0 .. frames[k].top0 - 1 :
                 stack[j] = frames[k].stack0[j]
           /\ k = InnermostCall(frames) /\ frames[k].pc <= 1 =>
                 stackTop = frames[k].top0

FramePreservation_step ==
    AtExit =>
       /\ stackTop' = TopFrame.top0
       /\ \A j \in 0 .. TopFrame.top0 - 1 : stack'[j] = TopFrame.stack0[j]

FramePreservation ==
    []FramePreservation_state /\ [][FramePreservation_step]_vars

\* In Simplest::fib(4) both recursive calls of the outermost body are over,
\* and its slot still holds 4.
FramePreservation_witness ==
    /\ program = "Simplest"
    /\ n = 4
    /\ Running
    /\ Len(frames) = 3
    /\ TopFrame.node.kind = "AddNode"
    /\ TopFrame.pc = 2
    /\ ret # Zero
    /\ stackTop = 1
    /\ stack[0] = U32(4)

\* C10. In the four fib trees on n every stack index used is in
\* 0 .. max(1, n) - 1: a push writes at stackTop <= max(1, n) - 1, the
\* argument is read only with stackTop >= 1, and stackTop never exceeds
\* max(1, n).
StackBoundsInFib ==
    program \in Stages =>
       /\ stackTop \in 0 .. DepthBound
       /\ AtPush => stackTop <= DepthBound - 1
       /\ Running /\ TopFrame.node.kind \in ReadKinds => stackTop >= 1
       /\ ~oob

StackBoundsInFib_witness ==
    /\ program = "BetterFusion"
    /\ n = 5
    /\ Running
    /\ TopFrame.node.kind = "LessArgConstNode"
    /\ stackTop = 5

====
